---- MODULE Spec2Model ----
(***************************************************************************)
(* Ball lifecycle of the breakout game: BallSystem (init, execute,         *)
(* spawnBall, launchBall) over the entity store, together with the engine  *)
(* steps that surround it in a frame (input, physics, deferred deletion),  *)
(* under Spec; and the debug outlines of Physics2DVisualizerSystem (init,  *)
(* execute, getOrCreateVerticesMesh) over the physics bodies, under        *)
(* DebugSpec.                                                              *)
(*                                                                         *)
(* Numbers are fixed point.  Velocities, directions and ball.speed are in  *)
(* units of 1/10000 (One = 1.0); positions are in tenths, so depth 30.1 is *)
(* 301.  The sampled directions and velocities have rational norms, so the *)
(* square roots and quotients below are exact on them.                     *)
(***************************************************************************)
EXTENDS Integers, Sequences, FiniteSets, TLC

VARIABLES entities, bonusRequests, paddle, gameState, ballScene, gpu, phase, tick,
          colliders, heap, visualizer, shot

\* the state of the game as BallSystem sees it
gameVars == <<entities, bonusRequests, paddle, gameState, ballScene, gpu, phase, tick>>
\* the other physics bodies, and the state of Physics2DVisualizerSystem
debugVars == <<colliders, heap, visualizer, shot>>

vars == <<entities, bonusRequests, paddle, gameState, ballScene, gpu, phase, tick,
          colliders, heap, visualizer, shot>>

----------------------------------------------------------------------------
(* Bounds of the model *)

MaxEntities == 2
MaxBonus == 1
MaxLives == 2
MaxLevel == 1
\* how far below zero the model follows gameState.lives
MaxDebt == 1
\* physics bodies other than balls: at a time, and over a run
MaxColliders == 2
MaxBodies == 3

Slots == 1..MaxEntities
BonusSlots == 1..MaxBonus
Levels == 1..MaxLevel
ColliderSlots == 1..MaxColliders

----------------------------------------------------------------------------
(* Program constants *)

One == 10000
BaseSpeed == 5000
SpeedPerLevel == 400
PaddleDepth == 230
SpawnHeight == 10
LossDepth == 300
BallRadius == 8
CurveAmplitude == 15
LaunchForward == 15000
RandomDenominator == 16
\* the debug outlines: speed / 10, 0.05 * sin, the blue channel 0.2
ColorCapSpeed == 10
PulsePercent == 5
BlueChannel == 2000

----------------------------------------------------------------------------
(* Sampled inputs *)

\* Math.random() results, in sixteenths, used by the paddle launch
LaunchRandoms == {1, 8, 15}
\* Math.random() results, in sixteenths, used by the bonus pass (x, then z)
BonusRandomsX == {8, 11}
BonusRandomsZ == {8, 12}
\* Math.sin(time * 2.0) * 0.0015 for the sampled times
Curves == {-CurveAmplitude, 0, CurveAmplitude}
\* gpu.flags
FlagSamples == {[ballShadows |-> FALSE, lucasMode |-> FALSE],
                [ballShadows |-> TRUE, lucasMode |-> TRUE]}
\* paddle.x
PaddleXs == {40, 60}
\* where a bonus block dies: Transform.position of the request entity
BonusPositions == {<<50, 5, 100>>}
\* what a physics step leaves in a moving body: position and velocity
KinematicSamples ==
  { [position |-> [x |-> 50, y |-> 290], velocity |-> [x |-> 300, y |-> -400]],
    [position |-> [x |-> 50, y |-> 300], velocity |-> [x |-> 6000, y |-> 8000]],
    [position |-> [x |-> 50, y |-> 301], velocity |-> [x |-> -400, y |-> 300]],
    [position |-> [x |-> 50, y |-> 290], velocity |-> [x |-> 0, y |-> 0]] }

----------------------------------------------------------------------------
(* Arithmetic *)

RECURSIVE SqrtSearch(_, _, _)
SqrtSearch(n, lo, hi) ==
  IF lo >= hi THEN lo
  ELSE IF ((lo + hi + 1) \div 2) * ((lo + hi + 1) \div 2) <= n
         THEN SqrtSearch(n, (lo + hi + 1) \div 2, hi)
         ELSE SqrtSearch(n, lo, (lo + hi + 1) \div 2 - 1)

\* Math.sqrt on fixed-point squares: the largest r with r * r <= n
Sqrt(n) == SqrtSearch(n, 0, 32767)

\* exact quotient on the sampled values; rounds toward zero elsewhere
Quot(a, b) == IF a >= 0 THEN a \div b ELSE -((-a) \div b)

\* velocity.x ** 2 + velocity.y ** 2
SpeedSquared(v) == v.x * v.x + v.y * v.y

----------------------------------------------------------------------------
(* Entities *)

NoEntity == [kind |-> "none"]
NoPaddle == [kind |-> "none"]
NoRequest == [kind |-> "none"]
\* what spawnBall returns when it returns nothing, and a null direction
Undefined == 0
Null == <<>>

IsBall(e) == e.kind = "ball"

\* class Ball: field initialisers
Ball == [waitingForLaunch |-> TRUE, speed |-> BaseSpeed]

\* new Physics2DBody('circle', x, y, radius, options): a body at rest
Physics2DBody(type, x, y, radius) ==
  [type |-> type, position |-> [x |-> x, y |-> y],
   velocity |-> [x |-> 0, y |-> 0], angle |-> 0, radius |-> radius]

\* Matter.Body.setPosition(body.body, {x, y})
SetPosition(e, x, y) == [e EXCEPT !.body.position = [x |-> x, y |-> y]]

\* Matter.Body.setVelocity(body.body, {x: direction[0], y: direction[2]})
SetVelocity(body, direction) ==
  [body EXCEPT !.velocity = [x |-> direction[1], y |-> direction[3]]]

SquaredLength(a) == a[1] * a[1] + a[2] * a[2] + a[3] * a[3]

Over(a, n) == <<Quot(a[1] * One, n), Quot(a[2] * One, n), Quot(a[3] * One, n)>>

\* vec3.normalize: the zero vector is left as it is
Normalize(a) == IF SquaredLength(a) > 0 THEN Over(a, Sqrt(SquaredLength(a))) ELSE a

\* vec3.scale
Scale(a, s) == <<Quot(a[1] * s, One), Quot(a[2] * s, One), Quot(a[3] * s, One)>>

\* launchBall with the normalisation left out
launchBallUnnormalized(ball, body, direction) ==
  [ball |-> [ball EXCEPT !.waitingForLaunch = FALSE],
   body |-> SetVelocity(body, Scale(direction, ball.speed))]

\* BallSystem.launchBall(ball, body, direction)
launchBall(ball, body, direction) ==
  [ball |-> [ball EXCEPT !.waitingForLaunch = FALSE],
   body |-> SetVelocity(body, Scale(Normalize(direction), ball.speed))]

FreeSlots(ents) == {s \in Slots : ents[s].kind = "none"}

LowestFree(ents) == CHOOSE s \in FreeSlots(ents) : \A t \in FreeSlots(ents) : s <= t

\* ballState = new Ball(); ballState.speed = 0.5 + gameState.level * 0.04
NewBallState == [Ball EXCEPT !.speed = BaseSpeed + gameState.level * SpeedPerLevel]

\* if (velocity) this.launchBall(ballState, body, velocity)
LaunchIfGiven(ballState, body, velocity) ==
  IF velocity # Null
    THEN launchBall(ballState, body, velocity)
    ELSE [ball |-> ballState, body |-> body]

\* ball.add(ballState, transform, body, PointLight, ImpactDamage), and the
\* ShadowCastingLight when castShadow
BallEntity(l, position, castShadow) ==
  [kind |-> "ball",
   ball |-> l.ball,
   transform |-> [position |-> position],
   body |-> l.body,
   components |-> {"Ball", "Transform", "Physics2DBody", "PointLight", "ImpactDamage"}
                    \cup (IF castShadow THEN {"ShadowCastingLight"} ELSE {}),
   dead |-> FALSE]

\* ballScene.createInstance(this.world), returned by spawnBall in the end
AddEntity(w, slot, e) == [w EXCEPT !.entities[slot] = e, !.ret = slot]

\* spawnBall with the body placed at (position[0], position[1])
spawnBallHeightAsDepth(w, position, velocity, castShadow) ==
  IF ~ballScene THEN [w EXCEPT !.ret = Undefined]
  ELSE IF FreeSlots(w.entities) = {} THEN [w EXCEPT !.full = TRUE, !.ret = Undefined]
  ELSE AddEntity(w, LowestFree(w.entities),
                 BallEntity(LaunchIfGiven(NewBallState,
                                          Physics2DBody("circle", position[1], position[2], BallRadius),
                                          velocity),
                            position, castShadow))

\* BallSystem.spawnBall(position, velocity, castShadow) on the world w:
\* w.entities is the entity store, w.ret what the call returned (the new
\* entity, or Undefined), w.full that the store's bound was hit.
spawnBall(w, position, velocity, castShadow) ==
  IF ~ballScene THEN [w EXCEPT !.ret = Undefined]
  ELSE IF FreeSlots(w.entities) = {} THEN [w EXCEPT !.full = TRUE, !.ret = Undefined]
  ELSE AddEntity(w, LowestFree(w.entities),
                 BallEntity(LaunchIfGiven(NewBallState,
                                          Physics2DBody("circle", position[1], position[3], BallRadius),
                                          velocity),
                            position, castShadow))

----------------------------------------------------------------------------
(* Physics2DVisualizerSystem.  Scales are products of a length in tenths and *)
(* a pulse in 1/10000, so 1 is 10 * One there; angles are in quarter turns.  *)

\* Math.hypot on velocities, taken on tenths of the components so that
\* speeds above the colour cap fit
Hypot(vx, vy) == 10 * Sqrt(Quot(vx, 10) * Quot(vx, 10) + Quot(vy, 10) * Quot(vy, 10))

\* Math.min(x, 1.0)
MinOne(x) == IF x < One THEN x ELSE One

\* [t, 1.0 - t, 0.2]
Gradient(t) == <<t, One - t, BlueChannel>>

\* the colour of a body: t = Math.min(speed / 10, 1.0)
VelocityColor(v) == Gradient(MinOne(Quot(Hypot(v.x, v.y), ColorCapSpeed)))

\* 1 + 0.05 * Math.sin(time * 5), from the value of the sine
Pulse(sine) == One + Quot(PulsePercent * sine, 100)

\* quat.rotateZ(quat.identity(), angle): (0, 0, sin(angle / 2), cos(angle / 2))
RotateZ(angle) ==
  CASE angle = 0 -> <<0, 0, 0, One>>
    [] angle = 1 -> <<0, 0, 7071, 7071>>
    [] angle = 2 -> <<0, 0, One, 0>>
    [] OTHER -> <<0, 0, 7071, -7071>>

\* an instance drawn without a scale
NoScale == <<>>

\* gpu.addFrameMeshInstance(mesh, new StaticTransform({position, scale, orientation}))
\* with the colour that was written to the mesh's material just before
MeshInstance(mesh, body, scale) ==
  [mesh |-> mesh,
   position |-> <<body.position.x, 0, body.position.y>>,
   orientation |-> RotateZ(body.angle),
   scale |-> scale,
   color |-> VelocityColor(body.velocity)]

\* the meshes by identity: this.rectMesh, this.circleMesh, and the n-th mesh
\* that getOrCreateVerticesMesh has built
rectMesh == [kind |-> "rectangle", name |-> 0]
circleMesh == [kind |-> "circle", name |-> 0]
VerticesMeshName(n) == [kind |-> "vertices", name |-> n]

\* createRectangleMesh(gpu) and createCircleMesh(gpu): baseColorFactor
RectangleColor == <<One, One, 0>>
CircleColor == <<0, One, 0>>
\* the material of a vertices mesh: baseColorFactor
VerticesColor == <<0, One, BlueChannel>>

\* the positions written to the vertex buffer: every vertex relative to the
\* body's position, and the first one again to close the strip
Outline(body) ==
  [i \in 1..(Len(body.vertices) + 1) |->
     <<body.vertices[IF i <= Len(body.vertices) THEN i ELSE 1].x - body.position.x, 0,
       body.vertices[IF i <= Len(body.vertices) THEN i ELSE 1].y - body.position.y>>]

\* new Mesh({geometry, material}) of getOrCreateVerticesMesh: the n-th mesh
\* built, for the body object `id`
VerticesMesh(n, id, body) ==
  [name |-> VerticesMeshName(n), builtFor |-> id, positions |-> Outline(body),
   drawCount |-> Len(body.vertices) + 1, color |-> VerticesColor]

\* verticesMeshes.set(body, mesh), with the count of builds per body
CacheMesh(v, id, mesh) ==
  [v EXCEPT !.verticesMeshes = (id :> mesh) @@ @,
            !.built = @ + 1,
            !.builds = (id :> (IF id \in DOMAIN @ THEN @[id] + 1 ELSE 1)) @@ @]

\* getOrCreateVerticesMesh without the lookup: a mesh per call
getOrCreateVerticesMeshUncached(v, id, body) ==
  [vis |-> CacheMesh(v, id, VerticesMesh(v.built + 1, id, body)),
   body |-> body, id |-> id]

\* getOrCreateVerticesMesh recentring body.body.vertices in place
getOrCreateVerticesMeshInPlace(v, id, body) ==
  IF id \in DOMAIN v.verticesMeshes
    THEN [vis |-> v, body |-> body, id |-> id]
    ELSE [vis |-> CacheMesh(v, id, VerticesMesh(v.built + 1, id, body)),
          body |-> [body EXCEPT !.vertices =
                      [i \in 1..Len(@) |-> [x |-> @[i].x - body.position.x,
                                            y |-> @[i].y - body.position.y]]],
          id |-> id]

\* getOrCreateVerticesMesh(gpu, body) for the body object `id`: the
\* visualizer after the call and the body after it; the mesh returned is the
\* one the cache then holds for id
getOrCreateVerticesMesh(v, id, body) ==
  IF id \in DOMAIN v.verticesMeshes
    THEN [vis |-> v, body |-> body, id |-> id]
    ELSE [vis |-> CacheMesh(v, id, VerticesMesh(v.built + 1, id, body)),
          body |-> body, id |-> id]

\* case 'rectangle'
DrawRectangle(v, body, pulse) ==
  [vis |-> [v EXCEPT !.rectColor = VelocityColor(body.velocity),
                     !.frame = Append(@, MeshInstance(rectMesh, body,
                                        <<body.width * pulse, 10 * One, body.height * pulse>>))],
   body |-> body]

\* case 'circle'
DrawCircle(v, body, pulse) ==
  [vis |-> [v EXCEPT !.circleColor = VelocityColor(body.velocity),
                     !.frame = Append(@, MeshInstance(circleMesh, body,
                                        <<body.radius * pulse, 10 * One, body.radius * pulse>>))],
   body |-> body]

\* case 'fromVertices', after getOrCreateVerticesMesh has returned g
DrawMesh(g) ==
  [vis |-> [g.vis EXCEPT !.verticesMeshes[g.id].color = VelocityColor(g.body.velocity),
                         !.frame = Append(@, MeshInstance(g.vis.verticesMeshes[g.id].name,
                                                          g.body, NoScale))],
   body |-> g.body]

\* one callback of bodyQuery.forEach: the switch on body.type
DrawBody(v, id, body, pulse) ==
  CASE body.type = "rectangle" -> DrawRectangle(v, body, pulse)
    [] body.type = "circle" -> DrawCircle(v, body, pulse)
    [] body.type = "fromVertices" -> DrawMesh(getOrCreateVerticesMesh(v, id, body))
    [] OTHER -> [vis |-> v, body |-> body]

\* the callback on a ball's body and on another body: what it leaves in the
\* visualizer and in the body
AfterBall(w, s, d) == [w EXCEPT !.vis = d.vis, !.entities[s].body = d.body]

AfterCollider(w, c, d) == [w EXCEPT !.vis = d.vis, !.colliders[c].body = d.body]

\* bodyQuery = query(Physics2DBody): the balls, then the other bodies
RECURSIVE DrawColliders(_, _, _)
DrawColliders(w, c, pulse) ==
  IF c > MaxColliders THEN w
  ELSE IF w.colliders[c].kind = "collider"
    THEN DrawColliders(AfterCollider(w, c, DrawBody(w.vis, w.colliders[c].id,
                                                    w.colliders[c].body, pulse)),
                       c + 1, pulse)
    ELSE DrawColliders(w, c + 1, pulse)

RECURSIVE DrawBalls(_, _, _)
DrawBalls(w, s, pulse) ==
  IF s > MaxEntities THEN w
  ELSE IF IsBall(w.entities[s])
    THEN DrawBalls(AfterBall(w, s, DrawBody(w.vis, 0, w.entities[s].body, pulse)),
                   s + 1, pulse)
    ELSE DrawBalls(w, s + 1, pulse)

\* Physics2DVisualizerSystem.execute(delta, time, gpu), from sin(time * 5);
\* frame holds the instances this call submits
VisualizerOutcome(sine) ==
  DrawColliders(DrawBalls([entities |-> entities, colliders |-> colliders,
                           vis |-> [visualizer EXCEPT !.frame = <<>>]],
                          1, Pulse(sine)),
                1, Pulse(sine))

\* Physics2DVisualizerSystem.init(gpu), and the empty verticesMeshes
InitialVisualizer ==
  [rectColor |-> RectangleColor, circleColor |-> CircleColor,
   verticesMeshes |-> <<>>, built |-> 0, builds |-> <<>>, frame |-> <<>>]

\* shot is the record of the debug-render pass that has just run: the sine of
\* its time and how many passes in a row (1, or 2 and more) have run with that
\* time on these bodies; any other step clears it
NoShot == [ran |-> FALSE]

----------------------------------------------------------------------------
(* BallSystem.execute: the per-ball pass.  A callback's running state is the *)
(* record [entity, waiting, direction, ...] that each block extends.         *)

\* (Math.random() * 2.0 - 1.0) for a draw of r sixteenths
SignedRandom(r) == Quot((r * 2 - RandomDenominator) * One, RandomDenominator)

\* vec3.fromValues((Math.random() * 2.0 - 1.0) * 0.5, 0, -1.5)
LaunchDirection(r) == <<Quot(SignedRandom(r), 2), 0, -LaunchForward>>

\* this.launchBall(ball, body, direction) on the ball's own components
Launched(e, l, direction) ==
  [entity |-> [e EXCEPT !.ball = l.ball, !.body = l.body],
   waiting |-> 0, direction |-> direction]

LaunchFromPaddle(e, direction) == Launched(e, launchBall(e.ball, e.body, direction), direction)

\* the paddle block with the launch signal not looked at
PositionOnPaddleNoSignal(e, paddleState, r) ==
  IF e.ball.waitingForLaunch /\ paddleState.kind = "paddle"
    THEN LaunchFromPaddle(SetPosition(e, paddleState.x, PaddleDepth), LaunchDirection(r))
    ELSE [entity |-> e, waiting |-> 0, direction |-> Null]

\* "Position ball on paddle before launch"; r is this ball's Math.random()
PositionOnPaddle(e, paddleState, r) ==
  IF e.ball.waitingForLaunch /\ paddleState.kind = "paddle"
    THEN IF paddleState.launch
           THEN LaunchFromPaddle(SetPosition(e, paddleState.x, PaddleDepth), LaunchDirection(r))
           ELSE [entity |-> SetPosition(e, paddleState.x, PaddleDepth),
                 waiting |-> 1, direction |-> Null]
    ELSE [entity |-> e, waiting |-> 0, direction |-> Null]

\* velocity * scaleFactor, scaleFactor = ball.speed / speed
Rescaled(v, target, speed) ==
  [x |-> Quot(v.x * target, speed), y |-> Quot(v.y * target, speed)]

\* the speed step with the comparison turned round: a cap, not a floor
MaintainSpeedAsCap(e) ==
  IF SpeedSquared(e.body.velocity) # 0
       /\ SpeedSquared(e.body.velocity) > e.ball.speed * e.ball.speed
    THEN [e EXCEPT !.body.velocity = Rescaled(@, e.ball.speed, Sqrt(SpeedSquared(@)))]
    ELSE e

\* "Maintain constant speed"
MaintainSpeed(e) ==
  IF SpeedSquared(e.body.velocity) # 0
       /\ SpeedSquared(e.body.velocity) < e.ball.speed * e.ball.speed
    THEN [e EXCEPT !.body.velocity = Rescaled(@, e.ball.speed, Sqrt(SpeedSquared(@)))]
    ELSE e

\* "Curve the motion slightly"
CurveMotion(e, curve) ==
  IF ~e.ball.waitingForLaunch
    THEN [e EXCEPT !.body.velocity.x = @ + curve]
    ELSE e

\* the loss check with >= for >
IsLostAtThreshold(e) == e.transform.position[3] >= LossDepth

\* "Ball lost check": transform.position[2] > 30
IsLost(e) == e.transform.position[3] > LossDepth

\* the callback after the paddle block: speed floor, then curve
FloorStep(p) ==
  [entity |-> MaintainSpeed(p.entity), waiting |-> p.waiting, direction |-> p.direction,
   atFloor |-> p.entity.body.velocity]

CurveStep(f, curve) ==
  [entity |-> CurveMotion(f.entity, curve), waiting |-> f.waiting, direction |-> f.direction,
   atFloor |-> f.atFloor, floored |-> f.entity.body.velocity]

\* entity.add(Tag('dead')); lostBall = true; else ballCount++
LostStep(c) ==
  [entity |-> [c.entity EXCEPT !.dead = @ \/ IsLost(c.entity)],
   waiting |-> c.waiting, direction |-> c.direction,
   atFloor |-> c.atFloor, floored |-> c.floored, lost |-> IsLost(c.entity)]

\* one callback of ballQuery.forEach
UpdateBall(e, paddleState, r, curve) ==
  LostStep(CurveStep(FloorStep(PositionOnPaddle(e, paddleState, r)), curve))

\* ballQuery = query(Ball, Physics2DBody, Transform)
BallQuery(ents) == {s \in Slots : IsBall(ents[s])}

\* the balls whose callback draws a Math.random()
Launching == {s \in BallQuery(entities) :
                /\ entities[s].ball.waitingForLaunch
                /\ paddle.kind = "paddle" /\ paddle.launch}

\* every ball's callback
Callbacks(rnd, curve) ==
  [s \in BallQuery(entities) |->
     UpdateBall(entities[s], paddle, IF s \in DOMAIN rnd THEN rnd[s] ELSE 0, curve)]

\* the world after the per-ball pass, with the pass's counters: ballCount,
\* lostBall, waitingBallCount; threw, ret and full follow the calls below;
\* the rest is the record of what the tick did
AfterBallPass(upd) ==
  [entities |-> [s \in Slots |-> IF s \in DOMAIN upd THEN upd[s].entity ELSE entities[s]],
   lives |-> gameState.lives,
   ballCount |-> Cardinality({s \in DOMAIN upd : ~upd[s].lost}),
   lostBall |-> \E s \in DOMAIN upd : upd[s].lost,
   waitingBallCount |-> Cardinality({s \in DOMAIN upd : upd[s].waiting = 1}),
   ret |-> Undefined, full |-> FALSE, threw |-> FALSE,
   balls |-> [s \in DOMAIN upd |-> [atFloor |-> upd[s].atFloor, floored |-> upd[s].floored,
                                    direction |-> upd[s].direction, lost |-> upd[s].lost]],
   bonus |-> {}, served |-> {}, directions |-> <<>>, respawn |-> {}, auto |-> {}]

\* the whole per-ball pass
BallPass(rnd, curve) == AfterBallPass(Callbacks(rnd, curve))

----------------------------------------------------------------------------
(* BallSystem.execute: bonus pass, respawn, auto-launch *)

\* bonusQuery = query(Transform, BonusBall, Tag('dead'))
BonusQuery == {b \in BonusSlots : bonusRequests[b].kind = "bonus"}

\* const bonusLight = bonus.get(PointLight): a TypeError when spawnBall
\* returned nothing
BonusLight(s, b, direction) ==
  IF s.ret = Undefined
    THEN [s EXCEPT !.threw = TRUE]
    ELSE [s EXCEPT !.bonus = @ \cup {s.ret}, !.served = @ \cup {b},
                   !.directions = (s.ret :> direction) @@ @]

BonusSpawn(w, b, position, direction) ==
  BonusLight(spawnBall(w, <<position[1], SpawnHeight, position[3]>>, direction,
                       gpu.flags.ballShadows),
             b, direction)

\* one callback of bonusQuery.forEach, for request b
BonusCallback(w, b, rx, rz) ==
  BonusSpawn(w, b, bonusRequests[b].transform.position,
             <<SignedRandom(rx), 0, -SignedRandom(rz)>>)

RECURSIVE BonusPass(_, _, _, _)
BonusPass(w, b, rx, rz) ==
  IF b > MaxBonus \/ w.threw THEN w
  ELSE IF b \in BonusQuery
    THEN BonusPass(BonusCallback(w, b, rx[b], rz[b]), b + 1, rx, rz)
    ELSE BonusPass(w, b + 1, rx, rz)

\* this.spawnBall([paddleState.x, 1, 23], null, gpu.flags.ballShadows);
\* reading paddleState.x throws when there is no paddle
SpawnAtPaddle(w) ==
  IF paddle.kind # "paddle"
    THEN [w EXCEPT !.threw = TRUE]
    ELSE spawnBall(w, <<paddle.x, SpawnHeight, PaddleDepth>>, Null, gpu.flags.ballShadows)

NoteRespawn(s) == [s EXCEPT !.respawn = IF s.threw \/ s.ret = Undefined THEN @ ELSE @ \cup {s.ret}]

NoteAuto(s) == [s EXCEPT !.auto = IF s.threw \/ s.ret = Undefined THEN @ ELSE @ \cup {s.ret}]

\* if (!gameState.levelStarting && gameState.lives > 0) spawn
RespawnIfAllowed(w) ==
  IF ~gameState.levelStarting /\ w.lives > 0 THEN NoteRespawn(SpawnAtPaddle(w)) ELSE w

\* the respawn step taking a life whenever no ball is alive
RespawnAlwaysCosts(w) ==
  IF w.threw \/ w.ballCount # 0 THEN w
  ELSE RespawnIfAllowed([w EXCEPT !.lives = @ - 1, !.ret = Undefined])

\* the respawn step with the level intro not looked at
RespawnDuringIntro(w) ==
  IF w.threw \/ w.ballCount # 0 THEN w
  ELSE IF (IF w.lostBall THEN w.lives - 1 ELSE w.lives) > 0
    THEN NoteRespawn(SpawnAtPaddle([w EXCEPT !.lives = IF w.lostBall THEN @ - 1 ELSE @,
                                             !.ret = Undefined]))
    ELSE [w EXCEPT !.lives = IF w.lostBall THEN @ - 1 ELSE @]

\* "Respawn if no balls left"
Respawn(w) ==
  IF w.threw \/ w.ballCount # 0 THEN w
  ELSE RespawnIfAllowed([w EXCEPT !.lives = IF w.lostBall THEN @ - 1 ELSE @,
                                  !.ret = Undefined])

\* the lucasMode step
AutoLaunch(w) ==
  IF w.threw THEN w
  ELSE IF gpu.flags.lucasMode /\ w.waitingBallCount = 0 /\ paddle.kind = "paddle"
    THEN NoteAuto(SpawnAtPaddle([w EXCEPT !.ret = Undefined]))
    ELSE w

\* BallSystem.execute(delta, time, gpu) as a whole, for the random draws
\* rnd (launches), rx and rz (bonus directions) and the curve of this time
ExecuteOutcome(rnd, curve, rx, rz) ==
  AutoLaunch(Respawn(BonusPass(BallPass(rnd, curve), 1, rx, rz)))

\* tick is the record of the execute call that has just returned (or thrown);
\* any other step clears it
NoTick == [ran |-> FALSE]

TickRecord(o, curve) ==
  [ran |-> TRUE, threw |-> o.threw,
   before |-> entities, livesBefore |-> gameState.lives,
   curve |-> curve, balls |-> o.balls,
   bonus |-> o.bonus, served |-> o.served, directions |-> o.directions,
   respawn |-> o.respawn, auto |-> o.auto]

Init ==
  /\ entities = [s \in Slots |-> NoEntity]
  /\ bonusRequests = [b \in BonusSlots |-> NoRequest]
  /\ paddle = NoPaddle
  /\ gameState \in [lives : {MaxLives}, level : Levels, levelStarting : {TRUE}]
  /\ ballScene = FALSE
  /\ gpu \in [flags : FlagSamples]
  /\ phase = "frame"
  /\ tick = NoTick
  /\ colliders = [c \in ColliderSlots |-> NoEntity]
  /\ heap = 0
  /\ visualizer = InitialVisualizer
  /\ shot = NoShot

\* what a call leaves behind, whether it returned or threw; served on a
\* request is history only (the request has had a ball), the code keeps no
\* such mark
Commit(o, curve) ==
  /\ ~o.full
  /\ o.lives >= -MaxDebt
  /\ entities' = o.entities
  /\ gameState' = [gameState EXCEPT !.lives = o.lives]
  /\ tick' = TickRecord(o, curve)
  /\ bonusRequests' = [b \in BonusSlots |->
                         IF b \in o.served
                           THEN [bonusRequests[b] EXCEPT !.served = TRUE]
                           ELSE bonusRequests[b]]

Execute ==
  /\ phase = "frame"
  /\ \E rnd \in [Launching -> LaunchRandoms], curve \in Curves,
        rx \in [BonusQuery -> BonusRandomsX], rz \in [BonusQuery -> BonusRandomsZ] :
       Commit(ExecuteOutcome(rnd, curve, rx, rz), curve)
  /\ phase' = "end"
  /\ UNCHANGED <<paddle, ballScene, gpu>>
  /\ UNCHANGED debugVars

----------------------------------------------------------------------------
(* The rest of the frame *)

\* gltfLoader.fromUrl(...).then(scene => ... this.ballScene = scene)
LoadBallScene ==
  /\ phase = "frame"
  /\ ~ballScene
  /\ ballScene' = TRUE
  /\ tick' = NoTick
  /\ UNCHANGED <<entities, bonusRequests, paddle, gameState, gpu, phase>>
  /\ UNCHANGED debugVars

\* the player system: the paddle entity appears, moves, asks for a launch, goes
PaddleInput ==
  /\ phase = "frame"
  /\ \E p \in {NoPaddle} \cup [kind : {"paddle"}, x : PaddleXs, launch : BOOLEAN] :
       /\ p # paddle
       /\ paddle' = p
  /\ tick' = NoTick
  /\ UNCHANGED <<entities, bonusRequests, gameState, ballScene, gpu, phase>>
  /\ UNCHANGED debugVars

\* the level's intro starts or ends
LevelIntro ==
  /\ phase = "frame"
  /\ gameState' = [gameState EXCEPT !.levelStarting = ~@]
  /\ tick' = NoTick
  /\ UNCHANGED <<entities, bonusRequests, paddle, ballScene, gpu, phase>>
  /\ UNCHANGED debugVars

\* a BonusBall block is destroyed: its entity gets Tag('dead')
BonusBlockDies ==
  /\ phase = "frame"
  /\ \E b \in BonusSlots, position \in BonusPositions :
       /\ bonusRequests[b].kind = "none"
       /\ \A c \in BonusSlots : c < b => bonusRequests[c].kind # "none"
       /\ bonusRequests' = [bonusRequests EXCEPT
                              ![b] = [kind |-> "bonus", transform |-> [position |-> position],
                                      served |-> FALSE]]
  /\ tick' = NoTick
  /\ UNCHANGED <<entities, paddle, gameState, ballScene, gpu, phase>>
  /\ UNCHANGED debugVars

\* the engine's deferred deletion: every entity tagged dead leaves the world
RemoveDead ==
  /\ phase = "frame"
  /\ \/ \E s \in Slots : IsBall(entities[s]) /\ entities[s].dead
     \/ BonusQuery # {}
  /\ entities' = [s \in Slots |-> IF IsBall(entities[s]) /\ entities[s].dead
                                    THEN NoEntity ELSE entities[s]]
  /\ bonusRequests' = [b \in BonusSlots |-> NoRequest]
  /\ tick' = NoTick
  /\ UNCHANGED <<paddle, gameState, ballScene, gpu, phase>>
  /\ UNCHANGED debugVars

\* the moving balls, which the physics step integrates
Moving == {s \in BallQuery(entities) : ~entities[s].ball.waitingForLaunch}

\* body position to Transform.position, as the physics system writes it back
SyncTransform(e) ==
  [e EXCEPT !.transform.position = <<e.body.position.x, @[2], e.body.position.y>>]

\* the physics step that starts a frame: moving bodies get a new position and
\* velocity, and every body's position is written to its Transform
PhysicsStep ==
  /\ phase = "end"
  /\ \E k \in [Moving -> KinematicSamples] :
       entities' = [s \in Slots |->
                      IF ~IsBall(entities[s]) THEN entities[s]
                      ELSE IF s \in Moving
                        THEN SyncTransform([entities[s] EXCEPT !.body.position = k[s].position,
                                                               !.body.velocity = k[s].velocity])
                        ELSE SyncTransform(entities[s])]
  /\ phase' = "frame"
  /\ tick' = NoTick
  /\ UNCHANGED <<bonusRequests, paddle, gameState, ballScene, gpu>>
  /\ UNCHANGED debugVars

Next ==
  \/ Execute
  \/ LoadBallScene
  \/ PaddleInput
  \/ LevelIntro
  \/ BonusBlockDies
  \/ RemoveDead
  \/ PhysicsStep

Spec == Init /\ [][Next]_vars

----------------------------------------------------------------------------
(* The debug-render pass over a world at rest between ticks: the ball store  *)
(* is one that spawnBall leaves, the other bodies come, move and go.  The    *)
(* renderer drops the frame's draw instances when the next frame begins.     *)

\* Math.sin(time * 5) for the sampled times
TimeSines == {-One, 0, One}

\* the other bodies when they are created
BodySamples ==
  { [type |-> "rectangle", position |-> [x |-> 20, y |-> 30],
     velocity |-> [x |-> 0, y |-> 0], angle |-> 0, width |-> 40, height |-> 10],
    [type |-> "fromVertices", position |-> [x |-> 20, y |-> 30],
     velocity |-> [x |-> 0, y |-> 0], angle |-> 0,
     vertices |-> <<[x |-> 10, y |-> 20], [x |-> 40, y |-> 20], [x |-> 10, y |-> 50]>>] }

\* what a physics step leaves in such a body: position, velocity, angle
BodyKinematics ==
  { [position |-> [x |-> 20, y |-> 30], velocity |-> [x |-> 0, y |-> 0], angle |-> 0],
    [position |-> [x |-> 30, y |-> 30], velocity |-> [x |-> 30000, y |-> 40000], angle |-> 1],
    [position |-> [x |-> 30, y |-> 40], velocity |-> [x |-> 90000, y |-> 120000], angle |-> 2] }

\* a body after a physics step; the world-space vertices move with it
Moved(body, k) ==
  IF body.type = "fromVertices"
    THEN [body EXCEPT !.position = k.position, !.velocity = k.velocity, !.angle = k.angle,
                      !.vertices = [i \in 1..Len(@) |->
                                      [x |-> @[i].x + k.position.x - body.position.x,
                                       y |-> @[i].y + k.position.y - body.position.y]]]
    ELSE [body EXCEPT !.position = k.position, !.velocity = k.velocity, !.angle = k.angle]

EmptyWorld == [entities |-> [s \in Slots |-> NoEntity], ret |-> Undefined, full |-> FALSE]

\* no ball, a ball waiting on the paddle, a ball in flight
BallStores ==
  { EmptyWorld.entities,
    spawnBall(EmptyWorld, <<40, SpawnHeight, PaddleDepth>>, Null, FALSE).entities,
    spawnBall(EmptyWorld, <<50, SpawnHeight, 100>>, <<6000, 0, -8000>>, FALSE).entities }

DebugInit ==
  /\ ballScene = TRUE
  /\ gameState = [lives |-> MaxLives, level |-> 1, levelStarting |-> FALSE]
  /\ paddle = [kind |-> "paddle", x |-> 40, launch |-> FALSE]
  /\ bonusRequests = [b \in BonusSlots |-> NoRequest]
  /\ gpu = [flags |-> [ballShadows |-> FALSE, lucasMode |-> FALSE]]
  /\ entities \in BallStores
  /\ phase = "frame"
  /\ tick = NoTick
  /\ colliders = [c \in ColliderSlots |-> NoEntity]
  /\ heap = 0
  /\ visualizer = InitialVisualizer
  /\ shot = NoShot

\* what the pass leaves behind
Submit(o, sine) ==
  /\ entities' = o.entities
  /\ colliders' = o.colliders
  /\ visualizer' = o.vis
  /\ shot' = [ran |-> TRUE, sine |-> sine,
              runs |-> IF shot.ran /\ shot.sine = sine THEN 2 ELSE 1]

\* Physics2DVisualizerSystem.execute
Render ==
  /\ \E sine \in TimeSines : Submit(VisualizerOutcome(sine), sine)
  /\ UNCHANGED <<bonusRequests, paddle, gameState, ballScene, gpu, phase, tick, heap>>

\* an entity with a Physics2DBody is created: a new body object
CreateCollider ==
  /\ heap < MaxBodies
  /\ \E c \in ColliderSlots, body \in BodySamples :
       /\ colliders[c].kind = "none"
       /\ \A d \in ColliderSlots : d < c => colliders[d].kind # "none"
       /\ colliders' = [colliders EXCEPT ![c] = [kind |-> "collider", id |-> heap + 1,
                                                 body |-> body]]
  /\ heap' = heap + 1
  /\ visualizer' = [visualizer EXCEPT !.frame = <<>>]
  /\ shot' = NoShot
  /\ UNCHANGED gameVars

\* an entity with a Physics2DBody is destroyed; verticesMeshes is a WeakMap,
\* so the entry of its body goes with it
DestroyCollider ==
  /\ \E c \in ColliderSlots :
       /\ colliders[c].kind = "collider"
       /\ colliders' = [colliders EXCEPT ![c] = NoEntity]
       /\ visualizer' = [visualizer EXCEPT !.verticesMeshes =
                                              [i \in DOMAIN @ \ {colliders[c].id} |-> @[i]],
                                            !.frame = <<>>]
  /\ shot' = NoShot
  /\ UNCHANGED <<gameVars, heap>>

\* a physics step moves a body
StepCollider ==
  /\ \E c \in ColliderSlots, k \in BodyKinematics :
       /\ colliders[c].kind = "collider"
       /\ Moved(colliders[c].body, k) # colliders[c].body
       /\ colliders' = [colliders EXCEPT ![c].body = Moved(@, k)]
  /\ visualizer' = [visualizer EXCEPT !.frame = <<>>]
  /\ shot' = NoShot
  /\ UNCHANGED <<gameVars, heap>>

DebugNext ==
  \/ Render
  \/ CreateCollider
  \/ DestroyCollider
  \/ StepCollider

DebugSpec == DebugInit /\ [][DebugNext]_vars

----------------------------------------------------------------------------
(* Properties of a tick.  TickBalls are the balls the per-ball pass visited; *)
(* a slot keeps its entity through a tick, which only adds entities.        *)

TickBalls == BallQuery(tick.before)
CountedAlive == {s \in TickBalls : ~tick.balls[s].lost}
MarkedLost == {s \in TickBalls : tick.balls[s].lost}
Spawned == {s \in Slots : ~IsBall(tick.before[s]) /\ IsBall(entities[s])}

\* C1: after a tick, a ball whose velocity was nonzero at the speed-floor step
\* has planar speed >= ball.speed - 0.0015; the floor brings a speed in
\* (0, ball.speed) to exactly ball.speed, and only the curve added to a flying
\* ball after the floor leaves the speed below ball.speed at the end of the tick.
C1_SpeedFloor ==
  tick.ran =>
    \A s \in TickBalls :
      LET e == entities[s]
          target == e.ball.speed
          atFloor == SpeedSquared(tick.balls[s].atFloor)
          floored == SpeedSquared(tick.balls[s].floored)
          final == SpeedSquared(e.body.velocity)
      IN atFloor # 0 =>
           /\ final >= (target - CurveAmplitude) * (target - CurveAmplitude)
           /\ (atFloor < target * target => floored = target * target)
           /\ floored >= target * target
           /\ (final < target * target => ~e.ball.waitingForLaunch /\ tick.curve # 0)
           /\ (e.ball.waitingForLaunch => e.body.velocity = tick.balls[s].floored)

\* a flying ball was below the floor, was raised to it, and the curve then
\* took it below ball.speed again
C1_Witness ==
  /\ tick.ran
  /\ \E s \in TickBalls :
       /\ SpeedSquared(tick.balls[s].atFloor) # 0
       /\ SpeedSquared(tick.balls[s].atFloor) < entities[s].ball.speed * entities[s].ball.speed
       /\ SpeedSquared(entities[s].body.velocity) < entities[s].ball.speed * entities[s].ball.speed

\* C2: waitingForLaunch goes from true to false only in a tick with a paddle
\* whose launch signal is set; a ball that is new and already flying was
\* spawned with a direction; no other step changes the flag of a waiting ball.
C2_LaunchOnlyBySignal ==
  [][\A s \in Slots :
       /\ (IsBall(entities[s]) /\ entities[s].ball.waitingForLaunch)
            => \/ /\ IsBall(entities'[s]) /\ entities'[s].ball.waitingForLaunch
               \/ /\ IsBall(entities'[s]) /\ tick'.ran
                  /\ paddle.kind = "paddle" /\ paddle.launch
               \/ ~IsBall(entities'[s]) /\ ~tick'.ran
       /\ (~IsBall(entities[s]) /\ IsBall(entities'[s]) /\ ~entities'[s].ball.waitingForLaunch)
            => tick'.ran /\ s \in DOMAIN tick'.directions
    ]_vars

\* a waiting ball was launched by the paddle's signal in the tick just run
C2_Witness ==
  /\ tick.ran
  /\ paddle.kind = "paddle" /\ paddle.launch
  /\ \E s \in TickBalls :
       tick.before[s].ball.waitingForLaunch /\ ~entities[s].ball.waitingForLaunch

\* C3: a tick changes lives by 0 or -1, and by -1 exactly when no ball was
\* counted alive in the per-ball pass and at least one ball was marked lost.
C3_LivesDecrement ==
  tick.ran =>
    /\ gameState.lives \in {tick.livesBefore, tick.livesBefore - 1}
    /\ (gameState.lives = tick.livesBefore - 1) <=> (CountedAlive = {} /\ MarkedLost # {})

\* the last ball was lost and lives went down by one
C3_Witness ==
  /\ tick.ran
  /\ CountedAlive = {} /\ MarkedLost # {}
  /\ gameState.lives = tick.livesBefore - 1

\* C4: the respawn step spawns only when no ball is alive after the pass,
\* lives (after the decrement) > 0, levelStarting is false and a paddle
\* exists; it then spawns exactly one ball, waiting, at the paddle's x, depth 23.
C4_Respawn ==
  tick.ran =>
    /\ Cardinality(tick.respawn) <= 1
    /\ tick.respawn # {} =>
         /\ CountedAlive = {}
         /\ gameState.lives > 0
         /\ ~gameState.levelStarting
         /\ paddle.kind = "paddle"
         /\ \A s \in tick.respawn :
              /\ s \in Spawned
              /\ entities[s].ball.waitingForLaunch
              /\ entities[s].transform.position[1] = paddle.x
              /\ entities[s].transform.position[3] = 230
              /\ entities[s].body.position = [x |-> paddle.x, y |-> 230]

\* the respawn step has spawned a ball
C4_Witness ==
  /\ tick.ran
  /\ tick.respawn # {}
  /\ \A s \in tick.respawn : IsBall(entities[s])

\* C5: the loss check tags a ball dead and sets the loss flag exactly when its
\* depth is > 30; at depth <= 30 the ball is counted alive and not tagged; a
\* last ball at depth 30.1 costs a life in that tick.
C5_LossThreshold ==
  tick.ran =>
    /\ \A s \in TickBalls :
         LET depth == tick.before[s].transform.position[3]
         IN /\ tick.balls[s].lost <=> depth > 300
            /\ depth > 300 => entities[s].dead /\ s \notin CountedAlive
            /\ depth <= 300 => entities[s].dead = tick.before[s].dead /\ s \in CountedAlive
    /\ (TickBalls # {} /\ \A s \in TickBalls : tick.before[s].transform.position[3] > 300)
         => gameState.lives = tick.livesBefore - 1

\* one ball sat exactly on the threshold and stayed alive while another, at
\* 30.1, was tagged
C5_Witness ==
  /\ tick.ran
  /\ \E s, t \in TickBalls :
       /\ tick.before[s].transform.position[3] = 300
       /\ ~entities[s].dead
       /\ tick.before[t].transform.position[3] = 301
       /\ ~tick.before[t].dead /\ entities[t].dead

\* a last ball at depth 30.1 was lost
C5_LastBallWitness ==
  /\ tick.ran
  /\ TickBalls # {}
  /\ \A s \in TickBalls : tick.before[s].transform.position[3] = 301
  /\ gameState.lives = tick.livesBefore - 1

\* C6: a ball sets the loss flag in one tick only: a ball that already carries
\* the dead tag when a tick starts does not set the flag in that tick.
C6_LostOnce ==
  tick.ran =>
    \A s \in TickBalls : tick.before[s].dead => ~tick.balls[s].lost

\* C6, in lives: a tick whose only lost balls were already tagged dead does
\* not cost a life.
C6_NoSecondDecrement ==
  tick.ran =>
    ((\A s \in MarkedLost : tick.before[s].dead) => gameState.lives = tick.livesBefore)

\* C7: spawnBall(position, null, castShadow) with the template loaded creates
\* exactly one entity: a waiting ball at rest at position, its circle body at
\* (position[0], position[2]), speed 0.5 + level * 0.04, with Ball, Transform
\* and the body on that one entity.
C7_SpawnWaiting ==
  tick.ran =>
    /\ \A s \in tick.respawn \cup tick.auto :
         LET e == entities[s]
         IN /\ s \in Spawned
            /\ e.ball.waitingForLaunch
            /\ e.body.velocity = [x |-> 0, y |-> 0]
            /\ e.transform.position = <<paddle.x, 10, 230>>
            /\ e.body.type = "circle"
            /\ e.body.position = [x |-> e.transform.position[1], y |-> e.transform.position[3]]
            /\ e.ball.speed * 100 = 50 * One + gameState.level * 4 * One
            /\ {"Ball", "Transform", "Physics2DBody"} \subseteq e.components
            /\ ("ShadowCastingLight" \in e.components) <=> gpu.flags.ballShadows
    /\ Spawned = tick.bonus \cup tick.respawn \cup tick.auto
    /\ Cardinality(Spawned) =
         Cardinality(tick.bonus) + Cardinality(tick.respawn) + Cardinality(tick.auto)
    /\ Cardinality(tick.respawn) <= 1 /\ Cardinality(tick.auto) <= 1
    /\ (/\ ballScene /\ ~tick.threw /\ CountedAlive = {}
        /\ ~gameState.levelStarting /\ gameState.lives > 0 /\ paddle.kind = "paddle")
         => Cardinality(tick.respawn) = 1

\* spawnBall was called with a null direction twice in one tick (respawn and
\* auto-launch), each call making its own waiting ball
C7_Witness ==
  /\ tick.ran
  /\ tick.respawn # {} /\ tick.auto # {}
  /\ \A s \in tick.respawn \cup tick.auto :
       IsBall(entities[s]) /\ entities[s].ball.waitingForLaunch

\* same direction: parallel and not opposite
SameDirection(v, d) ==
  /\ v.x * d[3] = v.y * d[1]
  /\ v.x * d[1] + v.y * d[3] > 0

\* C8: for every non-null direction given to spawnBall, the zero vector
\* included, the ball is flying, its velocity has magnitude ball.speed and the
\* direction of the input.
C8_SpawnFlying ==
  tick.ran =>
    \A s \in tick.bonus :
      LET e == entities[s]
      IN /\ ~e.ball.waitingForLaunch
         /\ SpeedSquared(e.body.velocity) = e.ball.speed * e.ball.speed
         /\ SameDirection(e.body.velocity, tick.directions[s])

\* C8 without the zero vector: every direction with a nonzero planar part
\* gives a flying ball at ball.speed in that direction.
C8_NonZeroDirection ==
  tick.ran =>
    \A s \in tick.bonus :
      LET e == entities[s]
          d == tick.directions[s]
      IN /\ ~e.ball.waitingForLaunch
         /\ (d[1] # 0 \/ d[3] # 0) =>
              /\ SpeedSquared(e.body.velocity) = e.ball.speed * e.ball.speed
              /\ SameDirection(e.body.velocity, d)

\* C9: a paddle launch uses a direction of depth -1.5 and lateral part in
\* [-0.5, 0.5]; the launched velocity has negative depth and magnitude
\* exactly ball.speed.
C9_LaunchDirection ==
  tick.ran =>
    \A s \in TickBalls :
      (tick.before[s].ball.waitingForLaunch /\ ~entities[s].ball.waitingForLaunch) =>
        LET d == tick.balls[s].direction
            v == tick.balls[s].atFloor
            target == entities[s].ball.speed
        IN /\ d # Null
           /\ d[3] * 2 = -3 * One
           /\ d[2] = 0
           /\ d[1] * 2 >= -One /\ d[1] * 2 <= One
           /\ v.y < 0
           /\ SpeedSquared(v) = target * target
           /\ SameDirection(v, d)

\* a waiting ball was launched to the side
C9_Witness ==
  /\ tick.ran
  /\ \E s \in TickBalls :
       /\ tick.before[s].ball.waitingForLaunch /\ ~entities[s].ball.waitingForLaunch
       /\ tick.balls[s].direction[1] > 0
       /\ tick.balls[s].atFloor.x > 0

\* C10: a tick without a paddle completes without an error and spawns nothing
\* by respawn or auto-launch.
C10_NoPaddle ==
  tick.ran =>
    (paddle.kind = "none" => ~tick.threw /\ tick.respawn = {} /\ tick.auto = {})

\* C11: while ballScene is unset, every spawn request of a tick is a no-op and
\* the tick completes: with a paddle there (so that the respawn request is
\* made at all), a tick creates no entity and raises no error.
C11_AssetNotReady ==
  tick.ran =>
    ((~ballScene /\ paddle.kind = "paddle") => ~tick.threw /\ Spawned = {})

\* C11, the part about entities alone: no tick creates an entity while the
\* template is not loaded.
C11_NothingCreated ==
  tick.ran => (~ballScene => Spawned = {})

\* a ball that is neither tagged dead nor absent
LiveBalls == {s \in Slots : IsBall(entities[s]) /\ ~entities[s].dead}

\* C12: a tick that ends its per-ball pass with no live ball, with lives > 0
\* after the decrement, levelStarting false, a paddle and the template loaded,
\* ends with a ball; and a tick that starts with no live ball (the ticks
\* spent waiting for the respawn) takes no life.
C12_NeverStuck ==
  tick.ran =>
    /\ (/\ CountedAlive = {} /\ gameState.lives > 0 /\ ~gameState.levelStarting
        /\ paddle.kind = "paddle" /\ ballScene)
         => LiveBalls # {}
    /\ (\A s \in TickBalls : tick.before[s].dead) => gameState.lives = tick.livesBefore

\* C12, the same-tick part alone
C12_BallInSameTick ==
  tick.ran =>
    ((/\ CountedAlive = {} /\ gameState.lives > 0 /\ ~gameState.levelStarting
      /\ paddle.kind = "paddle" /\ ballScene)
       => LiveBalls # {})

\* C16: the ball state machine is one-way per spawn: in every step, a ball
\* that is flying stays flying, a ball tagged dead stays tagged and, when the
\* step is a tick, is neither counted alive nor waiting in it; a waiting ball
\* that was not there before the step was made by spawnBall in that tick.
C16_OneWay ==
  [][\A s \in Slots :
       /\ (IsBall(entities[s]) /\ IsBall(entities'[s])) =>
            /\ ~entities[s].ball.waitingForLaunch => ~entities'[s].ball.waitingForLaunch
            /\ entities[s].dead =>
                 /\ entities'[s].dead
                 /\ ~entities'[s].ball.waitingForLaunch
                 /\ tick'.ran => tick'.balls[s].lost
       /\ (~IsBall(entities[s]) /\ IsBall(entities'[s]) /\ entities'[s].ball.waitingForLaunch)
            => tick'.ran /\ s \in tick'.respawn \cup tick'.auto
    ]_vars

\* C16, the components alone: waitingForLaunch never goes back to true, the
\* dead tag is never taken off, a tagged ball is never waiting, and a new
\* waiting ball comes from spawnBall.
C16_FlagsOneWay ==
  [][\A s \in Slots :
       /\ (IsBall(entities[s]) /\ IsBall(entities'[s])) =>
            /\ ~entities[s].ball.waitingForLaunch => ~entities'[s].ball.waitingForLaunch
            /\ entities[s].dead => entities'[s].dead /\ ~entities'[s].ball.waitingForLaunch
       /\ (~IsBall(entities[s]) /\ IsBall(entities'[s]) /\ entities'[s].ball.waitingForLaunch)
            => tick'.ran /\ s \in tick'.respawn \cup tick'.auto
    ]_vars

\* C17: a bonus request is consumed by the tick that processes it: that tick
\* spawns exactly one ball for it at (request x, height 1, request depth), and
\* no tick processes a request that an earlier tick has already given a ball.
C17_ConsumedOnce ==
  [][tick'.ran =>
       /\ \A b \in tick'.served : ~bonusRequests[b].served
       /\ ~tick'.threw =>
            /\ tick'.served = BonusQuery
            /\ Cardinality(tick'.bonus) = Cardinality(BonusQuery)
            /\ \A s \in tick'.bonus :
                 \E b \in BonusQuery :
                   entities'[s].transform.position =
                     <<bonusRequests[b].transform.position[1], 10,
                       bonusRequests[b].transform.position[3]>>
    ]_vars

\* C17, the single tick alone: one ball per pending request, at the request's
\* x and depth and at height 1.
C17_OneBallPerRequest ==
  [][(tick'.ran /\ ~tick'.threw) =>
       /\ tick'.served = BonusQuery
       /\ Cardinality(tick'.bonus) = Cardinality(BonusQuery)
       /\ \A s \in tick'.bonus :
            \E b \in BonusQuery :
              entities'[s].transform.position =
                <<bonusRequests[b].transform.position[1], 10,
                  bonusRequests[b].transform.position[3]>>
    ]_vars

\* the balls of the per-ball pass that are still waiting when it ends
StillWaiting == {s \in TickBalls : entities[s].ball.waitingForLaunch}

\* the conditions of the auto-launch step
AutoLaunchEnabled ==
  gpu.flags.lucasMode /\ paddle.kind = "paddle" /\ StillWaiting = {}

\* C18: with lucasMode set, a paddle and no ball waiting, the tick spawns one
\* more ball and that ball is flying, not waiting for a launch; with the flag
\* off, a ball waiting or no paddle, the step spawns nothing.
C18_AutoLaunch ==
  (tick.ran /\ ~tick.threw) =>
    /\ (AutoLaunchEnabled /\ ballScene) =>
         /\ Cardinality(tick.auto) = 1
         /\ \A s \in tick.auto : s \in Spawned /\ ~entities[s].ball.waitingForLaunch
    /\ ~AutoLaunchEnabled => tick.auto = {}

\* C18 as the code has it: the ball of the auto-launch step waits on the
\* paddle, at rest, like a respawned one.
C18_AutoSpawnsWaiting ==
  (tick.ran /\ ~tick.threw) =>
    /\ (AutoLaunchEnabled /\ ballScene) =>
         /\ Cardinality(tick.auto) = 1
         /\ \A s \in tick.auto :
              /\ s \in Spawned /\ entities[s].ball.waitingForLaunch
              /\ entities[s].body.velocity = [x |-> 0, y |-> 0]
              /\ entities[s].body.position = [x |-> paddle.x, y |-> 230]
    /\ ~AutoLaunchEnabled => tick.auto = {}

\* C19: gameState.lives is never negative.
C19_LivesNonNegative == gameState.lives >= 0

\* C19 on ticks that start with no ball already tagged dead: also there a
\* tick may take a life that is not left.
C19_NoDebtWithoutDeadBalls ==
  tick.ran =>
    ((\A s \in TickBalls : ~tick.before[s].dead) /\ tick.livesBefore >= 0
       => gameState.lives >= 0)

\* the balls waiting for launch
WaitingBalls == {s \in Slots : IsBall(entities[s]) /\ entities[s].ball.waitingForLaunch}

\* C20: at the end of every tick at most one ball is waiting for launch, and
\* no tick spawns more than one waiting ball.
C20_OneWaitingBall ==
  tick.ran =>
    /\ Cardinality(WaitingBalls) <= 1
    /\ Cardinality(Spawned \cap WaitingBalls) <= 1

\* C20 with the auto-launch flag off: the respawn step alone never makes a
\* second waiting ball.
C20_OneWaitingBallWithoutAuto ==
  (tick.ran /\ ~gpu.flags.lucasMode) =>
    /\ Cardinality(WaitingBalls) <= 1
    /\ Cardinality(Spawned \cap WaitingBalls) <= 1

----------------------------------------------------------------------------
(* Properties of the debug-render pass, under DebugSpec *)

LiveVertexBodies ==
  {colliders[c].id : c \in {d \in ColliderSlots :
                              /\ colliders[d].kind = "collider"
                              /\ colliders[d].body.type = "fromVertices"}}

\* C13: a debug-render pass that follows another one with the same time, no
\* step in between, submits the same sequence of instances: mesh, position,
\* orientation, scale and colour of each body.
C13_Idempotent ==
  [][(shot.ran /\ shot'.ran /\ shot'.sine = shot.sine)
       => visualizer'.frame = visualizer.frame]_vars

\* the pass has run twice in a row on a ball and on a vertices body whose mesh
\* the first of the two built
C13_Witness ==
  /\ shot.ran /\ shot.runs = 2
  /\ \E i, j \in DOMAIN visualizer.frame :
       /\ visualizer.frame[i].mesh = circleMesh
       /\ visualizer.frame[j].mesh.kind = "vertices"
       /\ visualizer.frame[j].color[1] > 0

\* C14: the mesh of a fromVertices body is built once, in the first pass that
\* sees the body, and later passes use that mesh; no two bodies share a mesh;
\* the cache holds entries of live bodies only.
C14_BuiltOnce ==
  [][LET before == visualizer.verticesMeshes
         after == visualizer'.verticesMeshes
     IN /\ \A id \in DOMAIN visualizer'.builds : visualizer'.builds[id] = 1
        /\ \A id \in DOMAIN after : after[id].builtFor = id
        /\ \A i, j \in DOMAIN after : i # j => after[i].name # after[j].name
        /\ DOMAIN after \subseteq LiveVertexBodies'
        /\ \A id \in DOMAIN before \cap DOMAIN after : after[id].name = before[id].name
        /\ shot'.ran =>
             /\ DOMAIN after = LiveVertexBodies'
             /\ \A id \in LiveVertexBodies' :
                  \E i \in DOMAIN visualizer'.frame :
                    visualizer'.frame[i].mesh = after[id].name
    ]_vars

\* two vertices bodies are cached after a third body was destroyed, and the
\* pass has run again on them
C14_Witness ==
  /\ shot.ran /\ shot.runs = 2
  /\ heap = 3
  /\ Cardinality(DOMAIN visualizer.verticesMeshes) = 2
  /\ \A id \in DOMAIN visualizer.builds : visualizer.builds[id] = 1

\* C15: a debug-render pass leaves every body, every ball, the game state and
\* the set of entities as they were.
C15_ReadOnly ==
  [][shot'.ran =>
       /\ entities' = entities
       /\ colliders' = colliders
       /\ gameState' = gameState
       /\ heap' = heap
       /\ UNCHANGED <<bonusRequests, paddle, ballScene>>
    ]_vars

\* the pass has drawn a ball in flight, a rectangle and a vertices body, and
\* has built the mesh of the last
C15_Witness ==
  /\ shot.ran
  /\ Len(visualizer.frame) = 3
  /\ \E s \in Slots : IsBall(entities[s]) /\ ~entities[s].ball.waitingForLaunch
  /\ \E i \in DOMAIN visualizer.frame : visualizer.frame[i].mesh = rectMesh
  /\ visualizer.built = 1

====
